---- MODULE Spec2Model ----
(***************************************************************************)
(* CheckPrice (src/src/index.ts): one getPrice(token) call against a       *)
(* ChainReader whose answers are chosen nondeterministically.  Every       *)
(* action is one event-loop turn: the arrival of one ChainReader answer    *)
(* together with every continuation that runs before the next answer is    *)
(* handled (the awaiting function's resumption, the Promise.all reaction,  *)
(* getPrice's resumption and the calls these issue).                       *)
(*                                                                         *)
(* JavaScript numbers are modelled as exact non-negative dyadic-scaled     *)
(* rationals n/d * 2^e plus Infinity and NaN; float64 rounding of the      *)
(* mantissa is outside the model.                                          *)
(***************************************************************************)
EXTENDS Integers, Sequences, FiniteSets, TLC

\* ------------------------------------------------------------------ bounds
MaxReserve == 2      \* pool reserves range over 0..MaxReserve
MaxAnswer == 2       \* oracle answers range over 0..MaxAnswer half units
MaxSqrt == 2         \* sqrtPriceX96 ranges over (0..MaxSqrt) * 2^95

\* ------------------------------------------------------- configuration
ZeroAddress == "0x0000000000000000000000000000000000000000"
uniswapV2FactoryAddress == "0x5C69bEe701ef814a2B6a3EDD4B1652CB9cc5aA6f"
uniswapV3FactoryAddress == "0x1F98431c8aD98523631AE4a59f267346ea31F984"
chainlinkOracleAddress == "0x5f4eC3Df9cbd43714FE2740f5E3616155c5b8419"
WETH_ADDRESS == "0xc02aaa39b223fe8d0a0e5c4f27ead9083c756cc2"
feeTiers == <<500, 3000, 10000>>

\* The same account as WETH_ADDRESS in checksum (mixed) case.
WETH_CHECKSUM == "0xC02aaA39b223FE8D0A0e5C4F27eAD9083C756Cc2"

Tokens == {"0x34F5C9449Bae9b1D96044690164BD66f2f604c1e",
           "0x6B175474E89094C44Da98b954EedeAC495271d0F"}

Null == "null"

\* --------------------------------------------------------- JS numbers
RECURSIVE GCD(_, _)
GCD(a, b) == IF b = 0 THEN a ELSE GCD(b, a % b)

RECURSIVE Twos(_)
Twos(x) == IF x % 2 = 1 THEN 0 ELSE 1 + Twos(x \div 2)

RECURSIVE Pow(_, _)
Pow(b, k) == IF k = 0 THEN 1 ELSE b * Pow(b, k - 1)

NullNum == [k |-> "null", n |-> 0, d |-> 1, e |-> 0]
NaN == [k |-> "nan", n |-> 0, d |-> 1, e |-> 0]
Infinity == [k |-> "inf", n |-> 0, d |-> 1, e |-> 0]

\* The number n/d * 2^e, n >= 0, d > 0, in lowest terms with n and d odd.
Fin(n, d, e) ==
    IF n = 0 THEN [k |-> "fin", n |-> 0, d |-> 1, e |-> 0]
    ELSE LET g == GCD(n, d)
             n1 == n \div g
             d1 == d \div g
             a == Twos(n1)
             b == Twos(d1)
         IN [k |-> "fin", n |-> n1 \div Pow(2, a), d |-> d1 \div Pow(2, b),
             e |-> e + a - b]

\* Number(x) of an integer m * 2^e2 (a BigNumberish too wide for one machine word).
Number(m, e2) == Fin(m, 1, e2)

\* A number read from a decimal string is kept as that decimal, n.d with e
\* fractional digits in d (k = "dec"): a 12-digit quantity such as
\* 1234.56789012 has no n/d form within the word.  Arithmetic brings it to
\* the n/d * 2^e form first.
Dec(whole, frac, digits) == [k |-> "dec", n |-> whole, d |-> frac, e |-> digits]

ToFin(a) ==
    IF a.k = "dec" THEN Fin(a.n * Pow(10, a.e) + a.d, Pow(10, a.e), 0) ELSE a

IsZero(a) == a.k = "fin" /\ a.n = 0

NumDiv(p, q) ==
    LET a == ToFin(p)
        b == ToFin(q)
    IN IF a.k = "nan" \/ b.k = "nan" THEN NaN
       ELSE IF a.k = "inf" THEN (IF b.k = "inf" THEN NaN ELSE Infinity)
       ELSE IF b.k = "inf" THEN Fin(0, 1, 0)
       ELSE IF IsZero(b) THEN (IF IsZero(a) THEN NaN ELSE Infinity)
       ELSE Fin(a.n * b.d, a.d * b.n, a.e - b.e)

NumMul(p, q) ==
    LET a == ToFin(p)
        b == ToFin(q)
    IN IF a.k = "nan" \/ b.k = "nan" THEN NaN
       ELSE IF a.k = "inf" \/ b.k = "inf"
            THEN (IF IsZero(a) \/ IsZero(b) THEN NaN ELSE Infinity)
       ELSE Fin(a.n * b.n, a.d * b.d, a.e + b.e)

\* A BigNumberish wider than one word: the integer hi * 10^8 + lo.
BigInt(hi, lo) == [hi |-> hi, lo |-> lo]

\* The fractional digits `frac` (an integer of `digits` digits) without their
\* trailing zeros; one digit is always kept ("1.0").
RECURSIVE StripZeros(_, _)
StripZeros(frac, digits) ==
    IF digits > 1 /\ frac % 10 = 0 THEN StripZeros(frac \div 10, digits - 1)
    ELSE [frac |-> frac, digits |-> digits]

\* formatUnits(value, decimals), decimals <= 8: the decimal string of
\* value / 10^decimals, as its whole part and its fractional digits.
formatUnits(value, decimals) ==
    LET whole == value.hi * Pow(10, 8 - decimals) + value.lo \div Pow(10, decimals)
        f == StripZeros(value.lo % Pow(10, decimals), decimals)
    IN [whole |-> whole, frac |-> f.frac, digits |-> f.digits]

\* parseFloat(s) of a decimal string "whole.frac".
parseFloat(s) ==
    IF s.frac = 0 THEN Dec(s.whole, 0, 0) ELSE Dec(s.whole, s.frac, s.digits)

\* ------------------------------------------------------------- errors
\* Mutant: the new error carries the prefix alone.
Wrap_dropsCause(prefix, err) == <<prefix>>

\* An error message is the sequence of its lines; "prefix\n" + error.
Wrap(prefix, err) == <<prefix>> \o err

Causes == {"rpc timeout", "execution reverted"}
ChainError(cause) == <<cause>>

\* -------------------------------------------------------- ChainReader
Call(m, fee) == [m |-> m, fee |-> fee]
Probe(i) == Call("getPool", feeTiers[i])
GetPair == Call("getPair", 0)
LatestAnswer == Call("latestAnswer", 0)
Token0 == Call("token0", 0)
GetReserves == Call("getReserves", 0)
Slot0 == Call("slot0", 0)

CallIds == {GetPair, LatestAnswer, Token0, GetReserves, Slot0}
               \cup {Probe(i) : i \in DOMAIN feeTiers}

V2PairAddress == "0xV2Pair"
V3PoolAddress(fee) ==
    IF fee = 500 THEN "0xV3Pool500"
    ELSE IF fee = 3000 THEN "0xV3Pool3000" ELSE "0xV3Pool10000"

NoAnswer == [st |-> "none", addr |-> "", x |-> 0, y |-> 0, err |-> ""]
Ok(addr, x, y) == [st |-> "ok", addr |-> addr, x |-> x, y |-> y, err |-> ""]
Err(cause) == [st |-> "err", addr |-> "", x |-> 0, y |-> 0, err |-> cause]

Failures == {Err(c) : c \in Causes}
PairAnswers == {Ok(a, 0, 0) : a \in {ZeroAddress, V2PairAddress}} \cup Failures
PoolAnswers(fee) ==
    {Ok(a, 0, 0) : a \in {ZeroAddress, V3PoolAddress(fee)}} \cup Failures
\* An oracle answer carries the low and high part of BigInt(hi, lo) in x and y.
OracleAnswers ==
    {Ok("", (k * 50000000) % 100000000, (k * 50000000) \div 100000000) :
        k \in 0..MaxAnswer} \cup Failures
\* Answers to a direct getEthUsdPrice() call, 123456789012 among them.
DirectOracleAnswers ==
    {Ok("", lo, hi) : hi \in (0..MaxAnswer) \cup {1234},
                     lo \in {0, 1, 5, 10, 100, 1000, 12345678, 25000000,
                             50000000, 56789012, 90000000, 99999999}}
        \cup Failures
Token0Answers(t) == {Ok(a, 0, 0) : a \in {WETH_ADDRESS, WETH_CHECKSUM, t}} \cup Failures
ReservesAnswers ==
    {Ok("", r0, r1) : r0 \in 0..MaxReserve, r1 \in 0..MaxReserve}
        \cup {Ok("", 1000, 4)} \cup Failures
Slot0Answers == {Ok("", m, 95) : m \in 0..MaxSqrt} \cup Failures

TaskNames == {"getV2Pool", "getV3Pool", "getEthUsdPrice",
              "getV2PriceWeth", "getV3PriceWeth"}
Fetch == {"getV2Pool", "getV3Pool", "getEthUsdPrice"}

VARIABLES
    token,     \* getPrice's argument
    pc,        \* getPrice: "idle", "fetch", "v2price", "v3price", "returned", "raised";
               \* "direct" while the caller uses another method of the object
    chain,     \* CallIds -> the ChainReader call's state and answer
    trace,     \* history: calls issued and answers received, in order
    task,      \* TaskNames -> "idle", "pending", "fulfilled", "rejected"
    taskErr,   \* TaskNames -> the error a rejected task raised
    retAddr,   \* the pool lookups' return values
    retNum,    \* the numeric tasks' return values
    tier,      \* getV3Pool: index in feeTiers of the probe in flight
    pair,      \* getV3Pool: local `pair`
    frame,     \* getPrice's locals
    quote,     \* the record getPrice returned
    error,     \* the error getPrice raised
    this,      \* the CheckPrice object's fields, shared by all its calls
    other      \* a second getPrice call on the same object: its own state

vars == <<token, pc, chain, trace, task, taskErr, retAddr, retNum, tier, pair,
          frame, quote, error, this, other>>

\* The program state as one record, so that a turn's continuations compose.
Cur == [token |-> token, pc |-> pc, chain |-> chain, trace |-> trace,
        task |-> task, taskErr |-> taskErr, retAddr |-> retAddr,
        retNum |-> retNum, tier |-> tier, pair |-> pair, frame |-> frame,
        quote |-> quote, error |-> error, this |-> this]

Becomes(s) ==
    /\ token' = s.token
    /\ pc' = s.pc
    /\ chain' = s.chain
    /\ trace' = s.trace
    /\ task' = s.task
    /\ taskErr' = s.taskErr
    /\ retAddr' = s.retAddr
    /\ retNum' = s.retNum
    /\ tier' = s.tier
    /\ pair' = s.pair
    /\ frame' = s.frame
    /\ quote' = s.quote
    /\ error' = s.error
    /\ this' = s.this
    /\ other' = other

\* A step of the second call: it runs on its own state and the shared object.
BecomesOther(s) ==
    /\ other' = s
    /\ this' = s.this
    /\ UNCHANGED <<token, pc, chain, trace, task, taskErr, retAddr, retNum,
                   tier, pair, frame, quote, error>>

NoQuote == [present |-> FALSE, v2Pool |-> Null, v3Pool |-> Null,
            v2Price |-> NullNum, v3Price |-> NullNum, price_usd |-> NullNum]

\* The object as the constructor leaves it.
constructor ==
    [provider |-> "provider",
     uniswapV2FactoryAddress |-> uniswapV2FactoryAddress,
     uniswapV3FactoryAddress |-> uniswapV3FactoryAddress,
     chainlinkOracleAddress |-> chainlinkOracleAddress,
     WETH_ADDRESS |-> WETH_ADDRESS,
     feeTiers |-> feeTiers]

\* A call that has not started.
Idle(tok) ==
    [token |-> tok, pc |-> "idle", chain |-> [c \in CallIds |-> NoAnswer],
     trace |-> <<>>, task |-> [t \in TaskNames |-> "idle"],
     taskErr |-> [t \in TaskNames |-> <<>>],
     retAddr |-> [t \in {"getV2Pool", "getV3Pool"} |-> Null],
     retNum |-> [t \in {"getEthUsdPrice", "getV2PriceWeth", "getV3PriceWeth"}
                     |-> NullNum],
     tier |-> 0, pair |-> Null,
     frame |-> [v2Pool |-> Null, v3Pool |-> Null, eth_usd |-> NullNum,
                v2Price |-> NullNum, v3Price |-> NullNum, price_usd |-> NullNum],
     quote |-> NoQuote, error |-> <<>>, this |-> constructor]

Init ==
    /\ this = constructor
    /\ other = Idle("0x34F5C9449Bae9b1D96044690164BD66f2f604c1e")
    /\ token \in Tokens
    /\ pc = "idle"
    /\ chain = [c \in CallIds |-> NoAnswer]
    /\ trace = <<>>
    /\ task = [t \in TaskNames |-> "idle"]
    /\ taskErr = [t \in TaskNames |-> <<>>]
    /\ retAddr = [t \in {"getV2Pool", "getV3Pool"} |-> Null]
    /\ retNum = [t \in {"getEthUsdPrice", "getV2PriceWeth", "getV3PriceWeth"} |-> NullNum]
    /\ tier = 0
    /\ pair = Null
    /\ frame = [v2Pool |-> Null, v3Pool |-> Null, eth_usd |-> NullNum,
                v2Price |-> NullNum, v3Price |-> NullNum, price_usd |-> NullNum]
    /\ quote = NoQuote
    /\ error = <<>>


\* ------------------------------------------------ ChainReader plumbing
\* A read-only contract call `c` leaves for contract `to` with arguments a1, a2.
Issue(s, c, to, a1, a2) ==
    [s EXCEPT !.chain[c] = [NoAnswer EXCEPT !.st = "inflight"],
              !.trace = Append(@, [ev |-> "call", c |-> c, to |-> to,
                                   a1 |-> a1, a2 |-> a2])]

\* The answer to call `c` arrives.
Answer(s, c, ans) ==
    [s EXCEPT !.chain[c] = ans,
              !.trace = Append(@, [ev |-> ans.st, c |-> c, to |-> "",
                                   a1 |-> "", a2 |-> ""])]

Fulfilled(s, t) == [s EXCEPT !.task[t] = "fulfilled"]
Rejected(s, t, err) == [s EXCEPT !.task[t] = "rejected", !.taskErr[t] = err]

\* JavaScript truthiness of a `string | null`.
Truthy(x) == x # Null /\ x # ""

\* --------------------------------------------------------- getV2Pool
\* Mutant: the pair lookup with its two token arguments swapped.
getV2Pool_swappedArgs(s) ==
    Issue([s EXCEPT !.task["getV2Pool"] = "pending"],
          GetPair, s.this.uniswapV2FactoryAddress, s.this.WETH_ADDRESS, s.token)

getV2Pool(s) ==
    Issue([s EXCEPT !.task["getV2Pool"] = "pending"],
          GetPair, s.this.uniswapV2FactoryAddress, s.token, s.this.WETH_ADDRESS)

\* Mutant: a failed pair lookup is tried once more.
getV2Pool_resume_retriesOnce(s, ans) ==
    IF ans.st = "err"
    THEN IF Len(SelectSeq(s.trace, LAMBDA ev : ev.ev = "call" /\ ev.c = GetPair)) < 2
         THEN Issue(s, GetPair, s.this.uniswapV2FactoryAddress, s.token, s.this.WETH_ADDRESS)
         ELSE Rejected(s, "getV2Pool",
                       Wrap("Failed to get Uniswap V2 pool address.",
                            ChainError(ans.err)))
    ELSE Fulfilled([s EXCEPT !.retAddr["getV2Pool"] =
                        IF ans.addr = ZeroAddress THEN Null ELSE ans.addr],
                   "getV2Pool")

\* Mutant: the zero address is returned as if it were a pair.
getV2Pool_resume_noZeroCheck(s, ans) ==
    IF ans.st = "err"
    THEN Rejected(s, "getV2Pool",
                  Wrap("Failed to get Uniswap V2 pool address.", ChainError(ans.err)))
    ELSE Fulfilled([s EXCEPT !.retAddr["getV2Pool"] = ans.addr], "getV2Pool")

getV2Pool_resume(s, ans) ==
    IF ans.st = "err"
    THEN Rejected(s, "getV2Pool",
                  Wrap("Failed to get Uniswap V2 pool address.", ChainError(ans.err)))
    ELSE Fulfilled([s EXCEPT !.retAddr["getV2Pool"] =
                        IF ans.addr = ZeroAddress THEN Null ELSE ans.addr],
                   "getV2Pool")

\* --------------------------------------------------------- getV3Pool
getV3Pool(s) ==
    Issue([s EXCEPT !.task["getV3Pool"] = "pending", !.pair = Null, !.tier = 1],
          Call("getPool", s.this.feeTiers[1]), s.this.uniswapV3FactoryAddress, s.token, s.this.WETH_ADDRESS)

\* Mutant: the tier that answered with a pool is moved to the front of
\* this.feeTiers, to be probed first by later lookups.
getV3Pool_return_promotesTier(s) ==
    LET ft == s.this.feeTiers
        found == Truthy(s.pair) /\ s.pair # ZeroAddress
        promoted == <<ft[s.tier]>> \o SubSeq(ft, 1, s.tier - 1)
                        \o SubSeq(ft, s.tier + 1, Len(ft))
    IN Fulfilled([s EXCEPT !.retAddr["getV3Pool"] = IF found THEN s.pair ELSE Null,
                           !.this.feeTiers = IF found THEN promoted ELSE ft],
                 "getV3Pool")

\* Mutant: the lookup never settles when no tier has a pool.
getV3Pool_return_hangsWhenAbsent(s) ==
    IF ~Truthy(s.pair) \/ s.pair = ZeroAddress THEN s
    ELSE Fulfilled([s EXCEPT !.retAddr["getV3Pool"] = s.pair], "getV3Pool")

\* Mutant: the local `pair` is returned without the null / zero-address test.
getV3Pool_return_raw(s) ==
    Fulfilled([s EXCEPT !.retAddr["getV3Pool"] = s.pair], "getV3Pool")

getV3Pool_return(s) ==
    Fulfilled([s EXCEPT !.retAddr["getV3Pool"] =
                   IF ~Truthy(s.pair) \/ s.pair = ZeroAddress THEN Null ELSE s.pair],
              "getV3Pool")

\* Mutant: the loop stops probing once getPrice has raised.
getV3Pool_resume_abortable(s, ans) ==
    IF ans.st = "err"
    THEN Rejected(s, "getV3Pool",
                  Wrap("Failed to get Uniswap V3 pool address.", ChainError(ans.err)))
    ELSE LET s1 == [s EXCEPT !.pair = ans.addr]
         IN IF ans.addr # ZeroAddress THEN getV3Pool_return(s1)
            ELSE IF s.pc = "raised" THEN s1
            ELSE IF s.tier < Len(s.this.feeTiers)
                 THEN Issue([s1 EXCEPT !.tier = s.tier + 1], Call("getPool", s.this.feeTiers[s.tier + 1]),
                            s.this.uniswapV3FactoryAddress, s.token, s.this.WETH_ADDRESS)
                 ELSE getV3Pool_return(s1)

\* Mutant: the loop over the fee tiers has no break.
getV3Pool_resume_noBreak(s, ans) ==
    IF ans.st = "err"
    THEN Rejected(s, "getV3Pool",
                  Wrap("Failed to get Uniswap V3 pool address.", ChainError(ans.err)))
    ELSE LET s1 == [s EXCEPT !.pair = ans.addr]
         IN IF s.tier < Len(s.this.feeTiers)
            THEN Issue([s1 EXCEPT !.tier = s.tier + 1], Call("getPool", s.this.feeTiers[s.tier + 1]),
                       s.this.uniswapV3FactoryAddress, s.token, s.this.WETH_ADDRESS)
            ELSE getV3Pool_return(s1)

getV3Pool_resume(s, ans) ==
    IF ans.st = "err"
    THEN Rejected(s, "getV3Pool",
                  Wrap("Failed to get Uniswap V3 pool address.", ChainError(ans.err)))
    ELSE LET s1 == [s EXCEPT !.pair = ans.addr]
         IN IF ans.addr # ZeroAddress THEN getV3Pool_return(s1)
            ELSE IF s.tier < Len(s.this.feeTiers)
                 THEN Issue([s1 EXCEPT !.tier = s.tier + 1], Call("getPool", s.this.feeTiers[s.tier + 1]),
                            s.this.uniswapV3FactoryAddress, s.token, s.this.WETH_ADDRESS)
                 ELSE getV3Pool_return(s1)

\* ----------------------------------------------------- getEthUsdPrice
getEthUsdPrice(s) ==
    Issue([s EXCEPT !.task["getEthUsdPrice"] = "pending"],
          LatestAnswer, s.this.chainlinkOracleAddress, "", "")

\* Mutant: the answer is formatted with 6 decimals instead of 8.
getEthUsdPrice_resume_sixDecimals(s, ans) ==
    IF ans.st = "err"
    THEN Rejected(s, "getEthUsdPrice",
                  Wrap("Failed to get ETH/USD price from Chainlink oracle.",
                       ChainError(ans.err)))
    ELSE Fulfilled([s EXCEPT !.retNum["getEthUsdPrice"] =
                        parseFloat(formatUnits(BigInt(ans.y, ans.x), 6))],
                   "getEthUsdPrice")

getEthUsdPrice_resume(s, ans) ==
    IF ans.st = "err"
    THEN Rejected(s, "getEthUsdPrice",
                  Wrap("Failed to get ETH/USD price from Chainlink oracle.",
                       ChainError(ans.err)))
    ELSE Fulfilled([s EXCEPT !.retNum["getEthUsdPrice"] =
                        parseFloat(formatUnits(BigInt(ans.y, ans.x), 8))],
                   "getEthUsdPrice")

\* ----------------------------------------------------- getV2PriceWeth
\* Mutant: token0 is awaited before getReserves is called.
getV2PriceWeth_sequential(s, pool_address) ==
    Issue([s EXCEPT !.task["getV2PriceWeth"] = "pending"],
          Token0, pool_address, "", "")

getV2PriceWeth(s, pool_address) ==
    Issue(Issue([s EXCEPT !.task["getV2PriceWeth"] = "pending"],
                Token0, pool_address, "", ""),
          GetReserves, pool_address, "", "")

\* Mutant: the test on token0 is inverted (=== instead of !==).
V2Price_inverted(self, token0, reserve0, reserve1) ==
    LET isToken0 == token0 = self.WETH_ADDRESS
        reserve_token == IF isToken0 THEN reserve0 ELSE reserve1
        reserve_weth == IF isToken0 THEN reserve1 ELSE reserve0
    IN NumDiv(Number(reserve_token, 0), Number(reserve_weth, 0))

V2Price(self, token0, reserve0, reserve1) ==
    LET isToken0 == token0 # self.WETH_ADDRESS
        reserve_token == IF isToken0 THEN reserve0 ELSE reserve1
        reserve_weth == IF isToken0 THEN reserve1 ELSE reserve0
    IN NumDiv(Number(reserve_token, 0), Number(reserve_weth, 0))

\* The reaction of Promise.all([token0(), getReserves()]) to the answer of `c`.
getV2PriceWeth_resume(s, c) ==
    IF s.task["getV2PriceWeth"] # "pending" THEN s
    ELSE IF s.chain[c].st = "err"
    THEN Rejected(s, "getV2PriceWeth",
                  Wrap("Failed to get Uniswap V2 price.", ChainError(s.chain[c].err)))
    ELSE IF s.chain[Token0].st = "ok" /\ s.chain[GetReserves].st = "ok"
    THEN Fulfilled([s EXCEPT !.retNum["getV2PriceWeth"] =
                        V2Price(s.this, s.chain[Token0].addr, s.chain[GetReserves].x,
                                s.chain[GetReserves].y)],
                   "getV2PriceWeth")
    ELSE s

\* ----------------------------------------------------- getV3PriceWeth
getV3PriceWeth(s, pool_address) ==
    Issue([s EXCEPT !.task["getV3PriceWeth"] = "pending"],
          Slot0, pool_address, "", "")

\* Mutant: the ratio is returned without being squared.
V3Price_notSquared(m, e2) == NumDiv(Number(m, e2), Number(1, 96))

\* (Number(sqrtPriceX96) / 2 ** 96) ** 2, for sqrtPriceX96 = m * 2^e2.
V3Price(m, e2) ==
    LET r == NumDiv(Number(m, e2), Number(1, 96)) IN NumMul(r, r)

getV3PriceWeth_resume(s, ans) ==
    IF ans.st = "err"
    THEN Rejected(s, "getV3PriceWeth",
                  Wrap("Failed to get Uniswap V3 price.", ChainError(ans.err)))
    ELSE Fulfilled([s EXCEPT !.retNum["getV3PriceWeth"] = V3Price(ans.x, ans.y)],
                   "getV3PriceWeth")

\* ----------------------------------------------------------- getPrice
\* Mutant: null instead of a record when no pool was found.
getPrice_return_nullWhenNoPool(s) ==
    [s EXCEPT !.pc = "returned",
              !.quote = IF Truthy(s.frame.v2Pool) \/ Truthy(s.frame.v3Pool)
                        THEN [present |-> TRUE,
                              v2Pool |-> s.frame.v2Pool, v3Pool |-> s.frame.v3Pool,
                              v2Price |-> s.frame.v2Price, v3Price |-> s.frame.v3Price,
                              price_usd |-> s.frame.price_usd]
                        ELSE NoQuote]

getPrice_return(s) ==
    [s EXCEPT !.pc = "returned",
              !.quote = [present |-> TRUE,
                         v2Pool |-> s.frame.v2Pool, v3Pool |-> s.frame.v3Pool,
                         v2Price |-> s.frame.v2Price, v3Price |-> s.frame.v3Price,
                         price_usd |-> s.frame.price_usd]]

\* Mutant: the catch block returns what was computed so far instead of throwing.
getPrice_catch_partial(s, err) ==
    [s EXCEPT !.pc = "returned",
              !.quote = [present |-> TRUE,
                         v2Pool |-> s.frame.v2Pool, v3Pool |-> s.frame.v3Pool,
                         v2Price |-> s.frame.v2Price, v3Price |-> s.frame.v3Price,
                         price_usd |-> s.frame.price_usd]]

getPrice_catch(s, err) ==
    [s EXCEPT !.pc = "raised",
              !.error = Wrap("Failed to get price information.", err)]

\* if (v3Pool) { v3Price = await this.getV3PriceWeth(v3Pool); ... } return {...}
getPrice_v3(s) ==
    IF Truthy(s.frame.v3Pool)
    THEN getV3PriceWeth([s EXCEPT !.pc = "v3price"], s.frame.v3Pool)
    ELSE getPrice_return(s)

\* Mutant: the V3 extraction is started together with the V2 extraction.
getPrice_v2_concurrent(s) ==
    IF Truthy(s.frame.v2Pool)
    THEN LET s1 == getV2PriceWeth([s EXCEPT !.pc = "v2price"], s.frame.v2Pool)
         IN IF Truthy(s.frame.v3Pool) THEN getV3PriceWeth(s1, s.frame.v3Pool) ELSE s1
    ELSE getPrice_v3(s)

\* if (v2Pool) { v2Price = await this.getV2PriceWeth(v2Pool); ... }
getPrice_v2(s) ==
    IF Truthy(s.frame.v2Pool)
    THEN getV2PriceWeth([s EXCEPT !.pc = "v2price"], s.frame.v2Pool)
    ELSE getPrice_v3(s)

\* Mutant: every rejection is reported, so the last one to arrive wins.
getPrice_fetched_lastFailure(s, t) ==
    IF s.pc \notin {"fetch", "raised"} THEN s
    ELSE IF s.task[t] = "rejected"
    THEN [s EXCEPT !.pc = "raised",
                   !.error = Wrap("Failed to get price information.", s.taskErr[t])]
    ELSE IF s.pc = "fetch" /\ \A u \in Fetch : s.task[u] = "fulfilled"
    THEN getPrice_v2([s EXCEPT !.frame.v2Pool = s.retAddr["getV2Pool"],
                               !.frame.v3Pool = s.retAddr["getV3Pool"],
                               !.frame.eth_usd = s.retNum["getEthUsdPrice"]])
    ELSE s

\* Mutant: the join waits until all three have settled (Promise.allSettled)
\* before it raises.
getPrice_fetched_allSettled(s, t) ==
    IF s.pc # "fetch" THEN s
    ELSE IF \E u \in Fetch : s.task[u] = "pending" THEN s
    ELSE IF \E u \in Fetch : s.task[u] = "rejected"
    THEN getPrice_catch(s, s.taskErr[CHOOSE u \in Fetch : s.task[u] = "rejected"])
    ELSE getPrice_v2([s EXCEPT !.frame.v2Pool = s.retAddr["getV2Pool"],
                               !.frame.v3Pool = s.retAddr["getV3Pool"],
                               !.frame.eth_usd = s.retNum["getEthUsdPrice"]])

\* getPrice resumes from `await Promise.all([...])` once task t has settled:
\* the first rejection rejects the whole, the last fulfilment fulfils it.
getPrice_fetched(s, t) ==
    IF s.pc # "fetch" THEN s
    ELSE IF s.task[t] = "rejected" THEN getPrice_catch(s, s.taskErr[t])
    ELSE IF \A u \in Fetch : s.task[u] = "fulfilled"
    THEN getPrice_v2([s EXCEPT !.frame.v2Pool = s.retAddr["getV2Pool"],
                               !.frame.v3Pool = s.retAddr["getV3Pool"],
                               !.frame.eth_usd = s.retNum["getEthUsdPrice"]])
    ELSE s

\* Mutant: price_usd is the V2 price itself, not converted by the oracle rate.
getPrice_v2priced_noRate(s) ==
    IF s.pc # "v2price" THEN s
    ELSE IF s.task["getV2PriceWeth"] = "rejected"
    THEN getPrice_catch(s, s.taskErr["getV2PriceWeth"])
    ELSE IF s.task["getV2PriceWeth"] = "fulfilled"
    THEN getPrice_v3([s EXCEPT !.frame.v2Price = s.retNum["getV2PriceWeth"],
                               !.frame.price_usd = s.retNum["getV2PriceWeth"]])
    ELSE s

\* Mutant: the V2 branch leaves price_usd unset.
getPrice_v2priced_noFiat(s) ==
    IF s.pc # "v2price" THEN s
    ELSE IF s.task["getV2PriceWeth"] = "rejected"
    THEN getPrice_catch(s, s.taskErr["getV2PriceWeth"])
    ELSE IF s.task["getV2PriceWeth"] = "fulfilled"
    THEN getPrice_v3([s EXCEPT !.frame.v2Price = s.retNum["getV2PriceWeth"]])
    ELSE s

\* getPrice resumes from `await this.getV2PriceWeth(v2Pool)`.
getPrice_v2priced(s) ==
    IF s.pc # "v2price" THEN s
    ELSE IF s.task["getV2PriceWeth"] = "rejected"
    THEN getPrice_catch(s, s.taskErr["getV2PriceWeth"])
    ELSE IF s.task["getV2PriceWeth"] = "fulfilled"
    THEN getPrice_v3([s EXCEPT !.frame.v2Price = s.retNum["getV2PriceWeth"],
                               !.frame.price_usd =
                                   NumMul(s.retNum["getV2PriceWeth"], s.frame.eth_usd)])
    ELSE s

\* Mutant: the V3 branch does not overwrite a price_usd the V2 branch set.
getPrice_v3priced_keepsV2(s) ==
    IF s.pc # "v3price" THEN s
    ELSE IF s.task["getV3PriceWeth"] = "rejected"
    THEN getPrice_catch(s, s.taskErr["getV3PriceWeth"])
    ELSE getPrice_return([s EXCEPT !.frame.v3Price = s.retNum["getV3PriceWeth"],
                                   !.frame.price_usd =
                                       IF s.frame.price_usd # NullNum
                                       THEN s.frame.price_usd
                                       ELSE NumMul(s.retNum["getV3PriceWeth"],
                                                   s.frame.eth_usd)])

\* getPrice resumes from `await this.getV3PriceWeth(v3Pool)`.
getPrice_v3priced(s) ==
    IF s.pc # "v3price" THEN s
    ELSE IF s.task["getV3PriceWeth"] = "rejected"
    THEN getPrice_catch(s, s.taskErr["getV3PriceWeth"])
    ELSE getPrice_return([s EXCEPT !.frame.v3Price = s.retNum["getV3PriceWeth"],
                                   !.frame.price_usd =
                                       NumMul(s.retNum["getV3PriceWeth"], s.frame.eth_usd)])

\* ------------------------------------------------------------ actions
\* The caller invokes getPrice(token): the three operations start, in order,
\* and each runs to its first await.
getPrice ==
    /\ pc = "idle"
    /\ Becomes(getEthUsdPrice(getV3Pool(getV2Pool([Cur EXCEPT !.pc = "fetch"]))))

getPair_answered ==
    /\ chain[GetPair].st = "inflight"
    /\ \E ans \in PairAnswers :
         Becomes(getPrice_fetched(getV2Pool_resume(Answer(Cur, GetPair, ans), ans),
                                  "getV2Pool"))

getPool_answered ==
    /\ tier \in DOMAIN feeTiers
    /\ chain[Probe(tier)].st = "inflight"
    /\ \E ans \in PoolAnswers(feeTiers[tier]) :
         Becomes(getPrice_fetched(getV3Pool_resume(Answer(Cur, Probe(tier), ans), ans),
                                  "getV3Pool"))

latestAnswer_answered ==
    /\ chain[LatestAnswer].st = "inflight"
    /\ \E ans \in OracleAnswers :
         Becomes(getPrice_fetched(
                     getEthUsdPrice_resume(Answer(Cur, LatestAnswer, ans), ans),
                     "getEthUsdPrice"))

token0_answered ==
    /\ chain[Token0].st = "inflight"
    /\ \E ans \in Token0Answers(token) :
         Becomes(getPrice_v2priced(getV2PriceWeth_resume(Answer(Cur, Token0, ans), Token0)))

getReserves_answered ==
    /\ chain[GetReserves].st = "inflight"
    /\ \E ans \in ReservesAnswers :
         Becomes(getPrice_v2priced(
                     getV2PriceWeth_resume(Answer(Cur, GetReserves, ans), GetReserves)))

slot0_answered ==
    /\ chain[Slot0].st = "inflight"
    /\ \E ans \in Slot0Answers :
         Becomes(getPrice_v3priced(getV3PriceWeth_resume(Answer(Cur, Slot0, ans), ans)))

Next ==
    \/ getPrice
    \/ getPair_answered
    \/ getPool_answered
    \/ latestAnswer_answered
    \/ token0_answered
    \/ getReserves_answered
    \/ slot0_answered

Spec == Init /\ [][Next]_vars

\* Every ChainReader call in flight is eventually answered or raises.
Fairness ==
    /\ WF_vars(getPair_answered)
    /\ WF_vars(getPool_answered)
    /\ WF_vars(latestAnswer_answered)
    /\ WF_vars(token0_answered)
    /\ WF_vars(getReserves_answered)
    /\ WF_vars(slot0_answered)

SpecFair == Init /\ [][Next]_vars /\ Fairness

\* --------------------------------------- getEthUsdPrice() called directly
getEthUsdPrice_called ==
    /\ pc = "idle"
    /\ Becomes(getEthUsdPrice([Cur EXCEPT !.pc = "direct"]))

latestAnswer_answered_direct ==
    /\ pc = "direct"
    /\ chain[LatestAnswer].st = "inflight"
    /\ \E ans \in DirectOracleAnswers :
         Becomes(getEthUsdPrice_resume(Answer(Cur, LatestAnswer, ans), ans))

NextOracle ==
    \/ getEthUsdPrice_called
    \/ latestAnswer_answered_direct

SpecOracle == Init /\ [][NextOracle]_vars


\* ------------------------------------ two calls on the same object
\* getPrice(token) up to its first await: the three operations start.
getPrice_call(s) == getEthUsdPrice(getV3Pool(getV2Pool([s EXCEPT !.pc = "fetch"])))

\* The turn of the event loop in which the answer to call c arrives: the
\* awaiting operation resumes, then getPrice if that operation settled.
Turn(s, c, ans) ==
    LET s1 == Answer(s, c, ans)
    IN IF c.m = "getPair" THEN getPrice_fetched(getV2Pool_resume(s1, ans), "getV2Pool")
       ELSE IF c.m = "getPool"
       THEN getPrice_fetched(getV3Pool_resume(s1, ans), "getV3Pool")
       ELSE IF c.m = "latestAnswer"
       THEN getPrice_fetched(getEthUsdPrice_resume(s1, ans), "getEthUsdPrice")
       ELSE IF c.m = "slot0" THEN getPrice_v3priced(getV3PriceWeth_resume(s1, ans))
       ELSE getPrice_v2priced(getV2PriceWeth_resume(s1, c))

\* What the chain may answer to call c of a getPrice(tok).
TwoAnswers(c, tok) ==
    IF c.m = "getPair"
    THEN {Ok(V2PairAddress, 0, 0), Err("rpc timeout")}
    ELSE IF c.m = "getPool"
    THEN {Ok(ZeroAddress, 0, 0), Ok(V3PoolAddress(c.fee), 0, 0)}
    ELSE IF c.m = "latestAnswer" THEN {Ok("", 50000000, 1)}
    ELSE IF c.m = "token0" THEN {Ok(tok, 0, 0)}
    ELSE IF c.m = "getReserves" THEN {Ok("", 1000, 4)}
    ELSE {Ok("", 1, 95)}

\* The second call as it runs: its own state and the object as it is now.
Other == [other EXCEPT !.this = this]

getPrice_first ==
    /\ pc = "idle"
    /\ Becomes(getPrice_call(Cur))

answered_first ==
    \E c \in CallIds :
        /\ chain[c].st = "inflight"
        /\ \E ans \in TwoAnswers(c, token) : Becomes(Turn(Cur, c, ans))

getPrice_second ==
    /\ other.pc = "idle"
    /\ BecomesOther(getPrice_call(Other))

answered_second ==
    \E c \in CallIds :
        /\ other.chain[c].st = "inflight"
        /\ \E ans \in TwoAnswers(c, other.token) : BecomesOther(Turn(Other, c, ans))

NextTwo ==
    \/ getPrice_first
    \/ answered_first
    \/ getPrice_second
    \/ answered_second

InitTwo == Init /\ token # other.token

SpecTwo == InitTwo /\ [][NextTwo]_vars

\* ------------------------------------------------- reading the history
InitialCalls == {GetPair, LatestAnswer} \cup {Probe(i) : i \in DOMAIN feeTiers}

Succeeded(c) == chain[c].st = "ok"
Failed(c) == chain[c].st = "err"
Hit(c) == Succeeded(c) /\ chain[c].addr # ZeroAddress
Miss(c) == Succeeded(c) /\ chain[c].addr = ZeroAddress

V2Found == Hit(GetPair)
V3Found == \E i \in DOMAIN feeTiers : Hit(Probe(i))
V3Absent == \A i \in DOMAIN feeTiers : Miss(Probe(i))

\* What the extractions and the oracle read yield on the answers received.
OracleRate ==
    parseFloat(formatUnits(BigInt(chain[LatestAnswer].y, chain[LatestAnswer].x), 8))
V2Result == V2Price(this, chain[Token0].addr, chain[GetReserves].x, chain[GetReserves].y)
V3Result == V3Price(chain[Slot0].x, chain[Slot0].y)

CallsOf(c) == SelectSeq(trace, LAMBDA ev : ev.ev = "call" /\ ev.c = c)
ProbeCalls == SelectSeq(trace, LAMBDA ev : ev.ev = "call" /\ ev.c.m = "getPool")

\* ----------------------------------------------------------------- C1
\* C1: when a V2 pair and a V3 pool are both discovered and both extractions
\* succeed, getPrice returns a quote whose reference-asset price behind the
\* fiat price is the V3 extraction result: v3Price is that result and
\* price_usd is that result times the oracle rate, whatever the V2 result.
C1_V3Precedence ==
    (V2Found /\ V3Found /\ Succeeded(Token0) /\ Succeeded(GetReserves)
        /\ Succeeded(Slot0))
    => /\ pc = "returned"
       /\ quote.v3Price = V3Result
       /\ quote.price_usd = NumMul(V3Result, OracleRate)

C1_Witness ==
    /\ V2Found /\ V3Found /\ Succeeded(Token0) /\ Succeeded(GetReserves)
    /\ Succeeded(Slot0)
    /\ pc = "returned"
    /\ quote.price_usd.k = "fin"
    /\ quote.v2Price = V2Result
    /\ NumMul(V2Result, OracleRate) # NumMul(V3Result, OracleRate)

C3_V2Only ==
    (V2Found /\ V3Absent /\ Succeeded(LatestAnswer)
        /\ Succeeded(Token0) /\ Succeeded(GetReserves))
    => /\ pc = "returned"
       /\ quote.v2Price = V2Result
       /\ quote.v3Price = NullNum
       /\ quote.price_usd = NumMul(V2Result, OracleRate)

C3_Witness ==
    /\ V2Found /\ V3Absent /\ Succeeded(LatestAnswer)
    /\ Succeeded(Token0) /\ Succeeded(GetReserves)
    /\ pc = "returned"
    /\ quote.price_usd.k = "fin" /\ quote.price_usd.n > 0
    /\ quote.price_usd # quote.v2Price


\* ----------------------------------------------------------------- C4
\* The operation an initial ChainReader call belongs to, and its error prefix.
PrefixOf(c) ==
    IF c.m = "getPair" THEN "Failed to get Uniswap V2 pool address."
    ELSE IF c.m = "getPool" THEN "Failed to get Uniswap V3 pool address."
    ELSE "Failed to get ETH/USD price from Chainlink oracle."

ErrEvents == SelectSeq(trace, LAMBDA ev : ev.ev = "err" /\ ev.c \in InitialCalls)
FirstFailed == Head(ErrEvents).c

\* C4 as stated: every initial ChainReader call that has raised has made
\* getPrice raise PriceResolutionFailed wrapping that call's cause, with no
\* quote, whatever the other two operations did.
C4_Original ==
    \A c \in InitialCalls :
        Failed(c) =>
            /\ pc = "raised"
            /\ ~quote.present
            /\ Head(error) = "Failed to get price information."
            /\ error[Len(error)] = chain[c].err

\* C4 amended: once any initial ChainReader call has raised, getPrice has
\* raised PriceResolutionFailed and returned no quote, and the error wraps
\* the cause of the first of these calls to raise, under that operation's
\* prefix; a later failure of another initial operation is not reported.
C4_FirstFailureWrapped ==
    (\E c \in InitialCalls : Failed(c))
    => /\ pc = "raised"
       /\ quote = NoQuote
       /\ error = <<"Failed to get price information.", PrefixOf(FirstFailed),
                    chain[FirstFailed].err>>

C4_Witness ==
    /\ Failed(LatestAnswer) /\ Failed(GetPair)
    /\ FirstFailed = LatestAnswer
    /\ chain[GetPair].err # chain[LatestAnswer].err
    /\ \E i \in DOMAIN feeTiers : Hit(Probe(i))
    /\ pc = "raised"

\* ----------------------------------------------------------------- C5
\* C5: a failed pool price extraction makes getPrice raise with no quote at
\* all: a failed V2 read raises even when a V3 pool was found, and the V3
\* read is then never issued; a failed V3 read raises even though the V2
\* price had been obtained.
C5_ExtractionFailureFatal ==
    /\ (Failed(Token0) \/ Failed(GetReserves) \/ Failed(Slot0))
       => /\ pc = "raised"
          /\ quote = NoQuote
          /\ Head(error) = "Failed to get price information."
    /\ (Failed(Token0) \/ Failed(GetReserves)) => chain[Slot0].st = "none"
    /\ (Failed(Token0) \/ Failed(GetReserves) \/ Failed(Slot0))
       => \A c \in InitialCalls : ~Failed(c)

C5_Witness ==
    /\ Failed(Slot0)
    /\ V2Found /\ Succeeded(Token0) /\ Succeeded(GetReserves)
    /\ frame.v2Price = V2Result /\ frame.v2Price.k = "fin"
    /\ frame.price_usd # NullNum
    /\ pc = "raised"

C7_FiatIffReference ==
    pc = "returned" =>
        /\ (quote.price_usd # NullNum) <=> (V2Found \/ V3Found)
        /\ (quote.price_usd # NullNum)
               <=> (quote.v2Price # NullNum \/ quote.v3Price # NullNum)
        /\ quote.v3Price # NullNum
               => quote.price_usd = NumMul(quote.v3Price, OracleRate)
        /\ (quote.v3Price = NullNum /\ quote.v2Price # NullNum)
               => quote.price_usd = NumMul(quote.v2Price, OracleRate)
        /\ (quote.v2Price # NullNum) <=> V2Found
        /\ (quote.v3Price # NullNum) <=> V3Found

C7_Witness ==
    /\ pc = "returned"
    /\ quote.v2Price # NullNum /\ quote.v3Price = NullNum
    /\ quote.price_usd.k = "fin" /\ quote.price_usd.n > 0
    /\ ToFin(OracleRate) # Fin(1, 1, 0)


\* ----------------------------------------------------------------- C8
\* The first fee tier, in configured order, whose lookup answered non-zero.
FirstHit == CHOOSE i \in DOMAIN feeTiers :
                Hit(Probe(i)) /\ \A j \in 1..(i - 1) : ~Hit(Probe(j))

\* C8: getV3Pool returns the address answered for the first fee tier of
\* [500, 3000, 10000] whose lookup answers non-zero, every earlier tier having
\* answered the zero address, and returns null when every tier answers the
\* zero address.
C8_FirstTierWins ==
    /\ feeTiers = <<500, 3000, 10000>>
    /\ task["getV3Pool"] = "fulfilled" =>
          /\ V3Found =>
                /\ retAddr["getV3Pool"] = chain[Probe(FirstHit)].addr
                /\ retAddr["getV3Pool"] = V3PoolAddress(feeTiers[FirstHit])
                /\ \A j \in 1..(FirstHit - 1) : Miss(Probe(j))
          /\ ~V3Found => (V3Absent /\ retAddr["getV3Pool"] = Null)
    /\ (V3Found \/ V3Absent) => task["getV3Pool"] = "fulfilled"

C8_Witness ==
    /\ task["getV3Pool"] = "fulfilled"
    /\ Miss(Probe(1)) /\ Hit(Probe(2))
    /\ retAddr["getV3Pool"] = V3PoolAddress(3000)

\* ----------------------------------------------------------------- C9
\* C9: the fee-tier probes are issued one at a time in configured order, each
\* after the previous one answered the zero address, and none after a probe
\* answered non-zero; with a miss at 500 and a hit at 3000 the probes issued
\* are exactly 500 then 3000, and the 10000 probe is never issued.
C9_ProbesShortCircuit ==
    /\ Len(ProbeCalls) <= Len(feeTiers)
    /\ \A i \in 1..Len(ProbeCalls) :
          /\ ProbeCalls[i].c = Probe(i)
          /\ i > 1 => Miss(Probe(i - 1))
    /\ Cardinality({i \in DOMAIN feeTiers : chain[Probe(i)].st = "inflight"}) <= 1
    /\ \A i \in DOMAIN feeTiers :
          Hit(Probe(i)) => \A j \in (i + 1)..Len(feeTiers) : chain[Probe(j)].st = "none"
    /\ (Miss(Probe(1)) /\ Hit(Probe(2)))
       => /\ ProbeCalls = <<[ev |-> "call", c |-> Call("getPool", 500),
                             to |-> uniswapV3FactoryAddress, a1 |-> token,
                             a2 |-> WETH_ADDRESS],
                            [ev |-> "call", c |-> Call("getPool", 3000),
                             to |-> uniswapV3FactoryAddress, a1 |-> token,
                             a2 |-> WETH_ADDRESS]>>
          /\ chain[Call("getPool", 10000)].st = "none"

\* The 3000 probe has hit after the 500 probe missed, and the rest of the
\* call has run to its end.
C9_Witness ==
    /\ Miss(Probe(1)) /\ Hit(Probe(2))
    /\ pc = "returned"
    /\ \A c \in CallIds : chain[c].st # "inflight"

\* ---------------------------------------------------------------- C10
\* C10: getV2Pool makes exactly one getPair call, to the V2 factory with
\* (token, WETH_ADDRESS), and returns the answered address when it is not the
\* zero address and null when it is.
C10_SinglePairLookup ==
    task["getV2Pool"] # "idle" =>
        /\ CallsOf(GetPair) = <<[ev |-> "call", c |-> GetPair,
                                 to |-> uniswapV2FactoryAddress, a1 |-> token,
                                 a2 |-> WETH_ADDRESS]>>
        /\ Succeeded(GetPair) =>
              /\ task["getV2Pool"] = "fulfilled"
              /\ retAddr["getV2Pool"] =
                     IF chain[GetPair].addr = ZeroAddress THEN Null
                     ELSE chain[GetPair].addr
        /\ task["getV2Pool"] = "fulfilled" => Succeeded(GetPair)

C10_Witness ==
    /\ task["getV2Pool"] = "fulfilled"
    /\ retAddr["getV2Pool"] = V2PairAddress
    /\ Len(CallsOf(GetPair)) = 1


\* ---------------------------------------------------------------- C11
\* C11: getV2PriceWeth takes reserve0 as the WETH reserve and reserve1 as the
\* token reserve exactly when token0 is the string WETH_ADDRESS, and the
\* reverse otherwise; it returns token reserve / WETH reserve, so token0 =
\* WETH_ADDRESS with reserves (1000, 4) gives 4/1000 = 0.004.
C11_ReserveSelection ==
    task["getV2PriceWeth"] = "fulfilled" =>
        LET t0 == chain[Token0].addr
            r0 == chain[GetReserves].x
            r1 == chain[GetReserves].y
            price == retNum["getV2PriceWeth"]
        IN /\ t0 = WETH_ADDRESS => price = NumDiv(Number(r1, 0), Number(r0, 0))
           /\ t0 # WETH_ADDRESS => price = NumDiv(Number(r0, 0), Number(r1, 0))
           /\ (t0 = WETH_ADDRESS /\ r0 = 1000 /\ r1 = 4) => price = Fin(4, 1000, 0)

C11_Witness ==
    /\ task["getV2PriceWeth"] = "fulfilled"
    /\ chain[Token0].addr = WETH_ADDRESS
    /\ chain[GetReserves].x = 1000 /\ chain[GetReserves].y = 4
    /\ retNum["getV2PriceWeth"] = Fin(1, 250, 0)

\* ---------------------------------------------------------------- C13
\* C13: getV3PriceWeth returns (sqrtPriceX96 / 2^96)^2 for the sqrtPriceX96 of
\* slot0; for sqrtPriceX96 = 2^96 that is exactly 1.
C13_SqrtPriceSquared ==
    task["getV3PriceWeth"] = "fulfilled" =>
        LET m == chain[Slot0].x
            e2 == chain[Slot0].y
            price == retNum["getV3PriceWeth"]
        IN /\ price = Fin(m * m, 1, 2 * e2 - 192)
           /\ Number(m, e2) = Number(1, 96) => price = Fin(1, 1, 0)

C13_Witness ==
    /\ task["getV3PriceWeth"] = "fulfilled"
    /\ Number(chain[Slot0].x, chain[Slot0].y) = Number(1, 96)
    /\ retNum["getV3PriceWeth"] = Fin(1, 1, 0)


\* ---------------------------------------------------------------- C12
\* C12 (SpecOracle): getEthUsdPrice returns the oracle's raw answer divided
\* by 10^8: the whole part is the answer's part above 10^8, the fraction is
\* the part below it read as eight decimal digits; the raw answer
\* 123456789012 gives 1234.56789012.
C12_EightDecimals ==
    task["getEthUsdPrice"] = "fulfilled" =>
        LET hi == chain[LatestAnswer].y
            lo == chain[LatestAnswer].x
            rate == retNum["getEthUsdPrice"]
        IN /\ rate.k = "dec"
           /\ rate.n = hi
           /\ rate.d * Pow(10, 8 - rate.e) = lo
           /\ rate.e \in 0..8
           /\ rate.d = 0 <=> rate.e = 0
           /\ rate.d # 0 => rate.d % 10 # 0
           /\ hi = 0 => ToFin(rate) = NumDiv(Number(lo, 0), Number(100000000, 0))
           /\ (hi = 1234 /\ lo = 56789012) => rate = Dec(1234, 56789012, 8)

C12_Witness ==
    /\ task["getEthUsdPrice"] = "fulfilled"
    /\ chain[LatestAnswer].y = 1234 /\ chain[LatestAnswer].x = 56789012
    /\ retNum["getEthUsdPrice"] = Dec(1234, 56789012, 8)


\* --------------------------------------------------- calls and operations
\* The operation that issues call c, and every operation's error prefix.
TaskOf(c) ==
    IF c.m = "getPair" THEN "getV2Pool"
    ELSE IF c.m = "getPool" THEN "getV3Pool"
    ELSE IF c.m = "latestAnswer" THEN "getEthUsdPrice"
    ELSE IF c.m = "slot0" THEN "getV3PriceWeth" ELSE "getV2PriceWeth"

OpPrefix(t) ==
    IF t = "getV2Pool" THEN "Failed to get Uniswap V2 pool address."
    ELSE IF t = "getV3Pool" THEN "Failed to get Uniswap V3 pool address."
    ELSE IF t = "getEthUsdPrice"
    THEN "Failed to get ETH/USD price from Chainlink oracle."
    ELSE IF t = "getV2PriceWeth" THEN "Failed to get Uniswap V2 price."
    ELSE "Failed to get Uniswap V3 price."

InFlight(c) == chain[c].st = "inflight"
Issued(c) == chain[c].st # "none"

\* The place in the history of the event `kind` of call c.
Index(kind, c) ==
    CHOOSE i \in DOMAIN trace : trace[i].ev = kind /\ trace[i].c = c

\* ---------------------------------------------------------------- C14
\* C14: every error an operation raises is that operation's fixed prefix
\* followed by the cause the failed ChainReader call gave; a failed call always
\* makes its operation raise; and the error getPrice raises is its own prefix
\* followed by the whole error of a failed sub-operation, cause included.
C14_CausesWrapped ==
    /\ \A t \in TaskNames :
          /\ task[t] = "rejected" =>
                \E c \in CallIds :
                    /\ TaskOf(c) = t /\ Failed(c)
                    /\ taskErr[t] = <<OpPrefix(t), chain[c].err>>
          /\ task[t] # "rejected" => taskErr[t] = <<>>
    /\ \A c \in CallIds : Failed(c) => task[TaskOf(c)] = "rejected"
    /\ pc = "raised" =>
          \E t \in TaskNames :
              /\ task[t] = "rejected"
              /\ error = <<"Failed to get price information.">> \o taskErr[t]
              /\ error[3] \in Causes
    /\ pc # "raised" => error = <<>>

C14_Witness ==
    /\ pc = "raised"
    /\ Failed(Slot0) /\ chain[Slot0].err = "execution reverted"
    /\ taskErr["getV3PriceWeth"] = <<"Failed to get Uniswap V3 price.", "execution reverted">>
    /\ error = <<"Failed to get price information.",
                 "Failed to get Uniswap V3 price.", "execution reverted">>

\* ---------------------------------------------------------------- C15
\* C15 as stated: getPrice has neither returned nor raised, nor moved on to
\* the extractions, while any of the three initial operations is unsettled.
C15_Original ==
    pc \in {"v2price", "v3price", "returned", "raised"}
        => \A t \in Fetch : task[t] \in {"fulfilled", "rejected"}

\* C15 amended: getPrice starts no extraction and returns no quote before
\* all three initial operations have succeeded, and it stays suspended while
\* none has failed and one is unsettled; but it raises in the very turn in
\* which the first of them fails, also while the others are still in flight.
C15_JoinThenProceed ==
    /\ pc \in {"v2price", "v3price", "returned"}
          => \A t \in Fetch : task[t] = "fulfilled"
    /\ pc = "fetch" =>
          /\ \A t \in Fetch : task[t] \in {"pending", "fulfilled"}
          /\ \E t \in Fetch : task[t] = "pending"
    /\ (\E t \in Fetch : task[t] = "rejected") => pc = "raised"

C15_Witness ==
    /\ pc = "raised"
    /\ task["getEthUsdPrice"] = "rejected"
    /\ task["getV2Pool"] = "pending" /\ InFlight(GetPair)
    /\ task["getV3Pool"] = "pending" /\ InFlight(Probe(1))

\* ---------------------------------------------------------------- C16
\* C16: nothing aborts an initial operation: while it is unsettled its call
\* is in flight, every fee-tier miss before the last tier is followed by the
\* next probe, and every answer settles its operation, whether or not a
\* sibling has failed and getPrice has raised.
C16_NoAbort ==
    /\ task["getV2Pool"] = "pending" => InFlight(GetPair)
    /\ task["getEthUsdPrice"] = "pending" => InFlight(LatestAnswer)
    /\ task["getV3Pool"] = "pending" => (tier \in DOMAIN feeTiers /\ InFlight(Probe(tier)))
    /\ \A i \in 1..(Len(feeTiers) - 1) : Miss(Probe(i)) => Issued(Probe(i + 1))
    /\ \A c \in InitialCalls :
          /\ Failed(c) => task[TaskOf(c)] = "rejected"
          /\ Hit(c) => task[TaskOf(c)] = "fulfilled"
    /\ \A c \in {GetPair, Probe(Len(feeTiers))} :
          Succeeded(c) => task[TaskOf(c)] = "fulfilled"
    /\ Succeeded(LatestAnswer) => task["getEthUsdPrice"] = "fulfilled"

\* The oracle read failed while the first probe was out; the lookup went on
\* through all three tiers and completed.
C16_Witness ==
    /\ pc = "raised"
    /\ Failed(LatestAnswer)
    /\ Miss(Probe(1)) /\ Miss(Probe(2)) /\ Hit(Probe(3))
    /\ Index("err", LatestAnswer) < Index("ok", Probe(1))
    /\ task["getV3Pool"] = "fulfilled"
    /\ retAddr["getV3Pool"] = V3PoolAddress(10000)

\* ---------------------------------------------------------------- C17
\* C17: no call to ChainReader is ever issued twice and none is answered
\* twice; a started getPrice issues the pair lookup and the oracle read
\* exactly once; and a call that failed is the last of its operation: the
\* operation is rejected, getPrice has raised, nothing is issued again.
C17_NoRetry ==
    /\ \A c \in CallIds :
          /\ Len(CallsOf(c)) = (IF Issued(c) THEN 1 ELSE 0)
          /\ Len(SelectSeq(trace, LAMBDA ev : ev.ev # "call" /\ ev.c = c))
                = (IF Succeeded(c) \/ Failed(c) THEN 1 ELSE 0)
          /\ Failed(c) =>
                /\ pc = "raised"
                /\ task[TaskOf(c)] = "rejected"
                /\ \A d \in CallIds :
                      (TaskOf(d) = TaskOf(c) /\ Issued(d) /\ d # c)
                          => Index("call", d) < Index("err", c)
    /\ pc # "idle" => (Issued(GetPair) /\ Issued(LatestAnswer) /\ Issued(Probe(1)))

\* Every call that could be retried has failed or been answered, and each
\* stands once in the history.
C17_Witness ==
    /\ pc = "raised"
    /\ Failed(GetPair) /\ Failed(LatestAnswer) /\ Failed(Probe(2))
    /\ \A c \in CallIds : ~InFlight(c)
    /\ Len(trace) = 8

\* ---------------------------------------------------------------- C18
\* C18: no extraction call is issued before all three initial operations
\* have succeeded; the V2 extraction starts in the turn the last of them
\* succeeds if a V2 pool was found; the V3 extraction starts only for a found
\* V3 pool and, where a V2 pool was found too, only after both V2 reads
\* were answered and the V2 extraction succeeded; the two never overlap.
C18_SequentialExtraction ==
    LET fetched == \A t \in Fetch : task[t] = "fulfilled"
        v2done == task["getV2PriceWeth"] = "fulfilled"
    IN /\ (Issued(Token0) \/ Issued(GetReserves) \/ Issued(Slot0)) => fetched
       /\ Issued(Token0) <=> (fetched /\ V2Found)
       /\ Issued(Slot0) <=> (fetched /\ V3Found /\ (V2Found => v2done))
       /\ (Issued(Slot0) /\ V2Found) =>
             /\ Index("ok", Token0) < Index("call", Slot0)
             /\ Index("ok", GetReserves) < Index("call", Slot0)
       /\ ~(InFlight(Slot0) /\ (InFlight(Token0) \/ InFlight(GetReserves)))
       /\ pc = "v2price" <=> task["getV2PriceWeth"] = "pending"
       /\ pc = "v3price" <=> task["getV3PriceWeth"] = "pending"

C18_Witness ==
    /\ V2Found /\ V3Found
    /\ pc = "v3price" /\ InFlight(Slot0)
    /\ task["getV2PriceWeth"] = "fulfilled"
    /\ frame.v2Price = V2Result

\* ---------------------------------------------------------------- C19
\* C19: token0 and getReserves are issued in one turn, next to each other
\* in the history and both to the pair; the extraction succeeds exactly
\* when both have succeeded, and then with the value their answers fix,
\* whichever came first; and if either fails the extraction is rejected
\* with the V2 extraction prefix.
C19_ConcurrentReads ==
    /\ Issued(Token0) <=> Issued(GetReserves)
    /\ Issued(Token0) =>
          /\ Index("call", GetReserves) = Index("call", Token0) + 1
          /\ trace[Index("call", Token0)].to = frame.v2Pool
          /\ trace[Index("call", GetReserves)].to = frame.v2Pool
    /\ task["getV2PriceWeth"] = "fulfilled"
          <=> (Succeeded(Token0) /\ Succeeded(GetReserves))
    /\ task["getV2PriceWeth"] = "fulfilled" =>
          retNum["getV2PriceWeth"] =
              IF chain[Token0].addr # WETH_ADDRESS
              THEN NumDiv(Number(chain[GetReserves].x, 0), Number(chain[GetReserves].y, 0))
              ELSE NumDiv(Number(chain[GetReserves].y, 0), Number(chain[GetReserves].x, 0))
    /\ (Failed(Token0) \/ Failed(GetReserves)) =>
          /\ task["getV2PriceWeth"] = "rejected"
          /\ Head(taskErr["getV2PriceWeth"]) = "Failed to get Uniswap V2 price."
          /\ pc = "raised"

\* The reserves were answered before token0 and the extraction gave 1000/4.
C19_Witness ==
    /\ task["getV2PriceWeth"] = "fulfilled"
    /\ Index("ok", GetReserves) < Index("ok", Token0)
    /\ chain[Token0].addr \in Tokens
    /\ retNum["getV2PriceWeth"] = Fin(125, 1, 1)

\* ---------------------------------------------------------------- C20
\* A call run alone on a freshly constructed object against the answers
\* that call r received, in the order in which r received them.
RECURSIVE Replay(_, _, _)
Replay(s, r, i) ==
    IF i > Len(r.trace) THEN s
    ELSE Replay(IF r.trace[i].ev = "call" THEN s
                ELSE Turn(s, r.trace[i].c, r.chain[r.trace[i].c]),
                r, i + 1)

Alone(r) ==
    IF r.pc = "idle" THEN Idle(r.token)
    ELSE Replay(getPrice_call(Idle(r.token)), r, 1)

\* C20: while two getPrice calls run interleaved on one object, the object's
\* addresses, fee-tier list and provider stay as the constructor set them,
\* and each call's state, with the quote it returned or the error it raised,
\* is the state of the same call run alone against its own answers.
C20_NoSharedState ==
    /\ this = constructor
    /\ Cur = Alone(Cur)
    /\ Other = Alone(Other)

\* The first call returned a V3 quote found at the second tier while the
\* second call, started before the first call's lookup ended, is still
\* probing the tiers for another token; and the second call then finds its
\* own pool at the first tier it is due to probe.
C20_Witness ==
    /\ pc = "returned" /\ quote.present
    /\ quote.v3Pool = V3PoolAddress(3000)
    /\ other.pc = "fetch"
    /\ other.chain[Probe(1)].st = "ok" /\ other.chain[Probe(1)].addr = ZeroAddress
    /\ other.chain[Probe(2)].st = "inflight"
    /\ other.token # token

\* ---------------------------------------------------------------- C21
\* The number of ChainReader calls of method m issued so far.
Issues(m) == Len(SelectSeq(trace, LAMBDA ev : ev.ev = "call" /\ ev.c.m = m))

CallBudget ==
    /\ Issues("getPair") <= 1
    /\ Issues("getPool") <= Len(feeTiers)
    /\ Issues("latestAnswer") <= 1
    /\ Issues("token0") <= 1 /\ Issues("getReserves") <= 1
    /\ Issues("slot0") <= 1
    /\ \A i \in DOMAIN trace : trace[i].ev = "call" => trace[i].c \in CallIds
    /\ \A c \in CallIds : Len(CallsOf(c)) <= 1

\* C21: when every ChainReader call in flight is eventually answered or
\* raises, a getPrice call that has started eventually has returned a quote
\* or raised, and stays so; and at every moment it has issued at most one
\* pair lookup, one probe per fee tier, one oracle read, one token0 read,
\* one getReserves read and one slot0 read.
C21_Terminates ==
    /\ [](pc # "idle" => <>[](pc \in {"returned", "raised"}))
    /\ []CallBudget

\* A call that has returned after issuing every call of the budget.
C21_Witness ==
    /\ pc = "returned" /\ quote.present
    /\ Issues("getPair") = 1 /\ Issues("getPool") = Len(feeTiers)
    /\ Issues("latestAnswer") = 1 /\ Issues("token0") = 1
    /\ Issues("getReserves") = 1 /\ Issues("slot0") = 1
    /\ \A c \in CallIds : ~InFlight(c)

\* ---------------------------------------------------------------- C22
Delivered == pc \in {"returned", "raised"}

OneOutcome ==
    /\ ~(quote.present /\ error # <<>>)
    /\ quote.present <=> pc = "returned"
    /\ error # <<>> <=> pc = "raised"
    /\ Len(ErrEvents) >= 2 =>
          /\ pc = "raised"
          /\ error = <<"Failed to get price information.", PrefixOf(FirstFailed),
                       chain[FirstFailed].err>>

\* C22: a getPrice call never has both a quote and an error, it has a quote
\* exactly when it returned and an error exactly when it raised; once it has
\* returned or raised, no later turn changes that outcome; and when two or
\* more initial operations have failed the error is the one wrapping the
\* cause of the call that failed first in time.
C22_SingleOutcome ==
    /\ []OneOutcome
    /\ [][Delivered => (pc' = pc /\ quote' = quote /\ error' = error)]_vars

\* All three initial operations failed, the pair lookup first and with a
\* cause the later ones do not share; the error is still the first one's.
C22_Witness ==
    /\ pc = "raised" /\ ~quote.present
    /\ Len(ErrEvents) = 3
    /\ FirstFailed = GetPair
    /\ chain[GetPair].err = "rpc timeout"
    /\ chain[LatestAnswer].err = "execution reverted"
    /\ \E i \in DOMAIN feeTiers : chain[Probe(i)].err = "execution reverted"
    /\ error[3] = "rpc timeout"

====
